---- MODULE Spec2Model ----
(***************************************************************************)
(* The index-linked binomial heap of                                       *)
(* sandbox/heaps/include/origin/heaps/binomial_heap.hpp                    *)
(* (binomial_heap<T, Compare, Item_Label>), instantiated as a min-oriented *)
(* heap: T is a record [key, id], Compare is key < key, Item_Label is id.  *)
(*                                                                         *)
(* Vectors are functions over 0..size-1.  elements_ is kept as its raw     *)
(* storage plus its logical size (elements_size): pop_back of a trivially  *)
(* destructible T leaves the storage behind, and the code reads and writes *)
(* slots at or beyond size().  Every such access is undefined behaviour;   *)
(* it is recorded in the sticky flag fault.  Its outcomes are modelled as  *)
(* a choice: a build with checked operator[] aborts (status "aborted"), an *)
(* unchecked build goes on with the raw storage.  A wild access (index     *)
(* none, i.e. size_t(-1)) reads a garbage value drawn from Garbage, or     *)
(* ends the process (stuck).                                               *)
(***************************************************************************)
EXTENDS Integers, Sequences, FiniteSets, TLC

\* ------------------------------------------------------------------ bounds
\* Runs of push and pop (SpecPP): number of push calls (data_ never shrinks,
\* so this also bounds the node arena), and keys 1..MaxKey.
MaxPush == 6
MaxKey == 2
\* Runs of push, pop and update (Spec): number of push calls, of update calls,
\* and keys 1..MaxKeyU.
MaxPushU == 5
MaxUpdate == 2
MaxKeyU == 3
\* Push-only runs (SpecPush): number of push calls, which also sizes its
\* index_array; keys 1..MaxKeyU.
MaxPushOnly == 7
\* Runs of pushes ended by one pop (SpecTree): number of push calls, which
\* also sizes its index_array; keys 1..MaxKey.
MaxTree == 8
\* Scalar subtraction (SpecMatrix): number of elements of a matrix, and
\* elements and scalars -MaxElem..MaxElem.
MatLen == 2
MaxElem == 2
\* Runs of push and pop with pop calls on a heap whose head_ is none (SpecPPE):
\* number of push calls and of such pop calls; keys 1..MaxKey.
MaxPushE == 5
MaxEmptyPop == 2
\* merge on its own (SpecMerge): number of roots of the two lists together,
\* and degrees 0..MaxDeg.
NMerge == 4
MaxDeg == 2
\* Size n handed to the constructor: index_array has n entries, handles 0..n-1.
NHandles == 5

\* size_t(-1), the "none" link.
None == -1

Keys == 1..MaxKey
KeysU == 1..MaxKeyU
Handles == 0..(NHandles - 1)
Values == [key : Keys, id : Handles]
ValuesU == [key : KeysU, id : Handles]
\* Content of storage no push has written yet.
Junk == [key |-> 0, id |-> None]

\* ------------------------------------------------------- vectors, records
Size(v) == Cardinality(DOMAIN v)
PushBack(v, x) == [i \in 0..Size(v) |-> IF i < Size(v) THEN v[i] ELSE x]
PopBack(v) == [i \in 0..(Size(v) - 2) |-> v[i]]

\* Compare: std::less on the key (min-oriented instance).
compare_(a, b) == a.key < b.key
\* Item_Label: the handle function.
Item_Label(d) == d.id

Node(ii, p, c, rs, dg) ==
  [item_index |-> ii, parent |-> p, child |-> c, right_sibling |-> rs, degree |-> dg]
\* binomial_heap_node(): links and degree are size_t(-1), item_index is not set.
binomial_heap_node == Node(None, None, None, None, None)

\* The value a node refers to, read from the raw storage.
ElemOf(h, x) == h.elements_[h.data_[x].item_index]
\* Reading it is out of range when the slot is not below elements_.size().
SlotOOB(h, x) == h.data_[x].item_index \notin 0..(h.elements_size - 1)

\* ------------------------------------------------------------ binomial_link
\* binomial_link without the degree increment of line 584.
binomial_link_SameDegree(d, y, z) ==
  [d EXCEPT ![y].parent = z,
            ![y].right_sibling = d[z].child,
            ![z].child = y]

\* Lines 580-585: y becomes the first child of z.
binomial_link(d, y, z) ==
  [d EXCEPT ![y].parent = z,
            ![y].right_sibling = d[z].child,
            ![z].child = y,
            ![z].degree = d[z].degree + 1]

\* ------------------------------------------------------------------- merge
\* The while loop of merge: r = [d, p, q, current, stuck].
RECURSIVE MergeLoop(_, _, _, _, _)
MergeLoop(d, p, q, current, fuel) ==
  IF p = None /\ q = None THEN [d |-> d, stuck |-> FALSE]
  ELSE IF fuel = 0 THEN [d |-> d, stuck |-> TRUE]
  ELSE IF q = None \/ (p /= None /\ d[p].degree < d[q].degree)
       THEN MergeLoop([d EXCEPT ![current].right_sibling = p],
                      d[p].right_sibling, q, p, fuel - 1)
       ELSE MergeLoop([d EXCEPT ![current].right_sibling = q],
                      p, d[q].right_sibling, q, fuel - 1)

\* merge without the pop_back of line 440: the sentinel node stays in data_.
merge_KeepSentinel(h, index) ==
  LET p == h.head_
      q == index
      oob == p \notin DOMAIN h.data_ \/ q \notin DOMAIN h.data_
      current == Size(h.data_)
      d1 == PushBack(h.data_, binomial_heap_node)
      r == MergeLoop(d1, p, q, current, 2 * Size(d1) + 2)
  IN [h EXCEPT !.data_ = r.d,
               !.head_ = r.d[current].right_sibling,
               !.fault = h.fault \/ oob,
               !.union_oob = h.union_oob \/ oob,
               !.stuck = h.stuck \/ r.stuck]

merge(h, index) ==
  LET p == h.head_
      q == index
      \* line 416 reads data_[p].degree and data_[q].degree
      oob == p \notin DOMAIN h.data_ \/ q \notin DOMAIN h.data_
      current == Size(h.data_)
      d1 == PushBack(h.data_, binomial_heap_node)
      r == MergeLoop(d1, p, q, current, 2 * Size(d1) + 2)
  IN [h EXCEPT !.data_ = PopBack(r.d),
               !.head_ = r.d[current].right_sibling,
               !.fault = h.fault \/ oob,
               !.union_oob = h.union_oob \/ oob,
               !.stuck = h.stuck \/ r.stuck]

\* ------------------------------------------------------ binomial_heap_union
RECURSIVE UnionLoop(_, _, _, _, _)
UnionLoop(h, x, next_x, prev_x, fuel) ==
  IF next_x = None THEN h
  ELSE IF fuel = 0 THEN [h EXCEPT !.stuck = TRUE]
  ELSE
    LET d == h.data_
        nn == d[next_x].right_sibling
    IN IF d[x].degree /= d[next_x].degree
          \/ (nn /= None /\ d[nn].degree = d[x].degree)
       THEN UnionLoop(h, next_x, d[next_x].right_sibling, x, fuel - 1)
       ELSE
         LET hf == [h EXCEPT !.fault = h.fault \/ SlotOOB(h, x) \/ SlotOOB(h, next_x)]
         IN IF compare_(ElemOf(h, x), ElemOf(h, next_x))
            THEN LET d1 == [d EXCEPT ![x].right_sibling = d[next_x].right_sibling]
                     d2 == binomial_link(d1, next_x, x)
                 IN UnionLoop([hf EXCEPT !.data_ = d2], x, d2[x].right_sibling,
                              prev_x, fuel - 1)
            ELSE LET d1 == IF prev_x = None THEN d
                           ELSE [d EXCEPT ![prev_x].right_sibling = next_x]
                     d2 == binomial_link(d1, x, next_x)
                 IN UnionLoop([hf EXCEPT !.data_ = d2,
                                         !.head_ = IF prev_x = None THEN next_x
                                                   ELSE h.head_],
                              next_x, d2[next_x].right_sibling, prev_x, fuel - 1)

binomial_heap_union(h, index) ==
  LET h1 == merge(h, index)
  IN IF h1.stuck THEN h1
     ELSE IF h1.data_[h1.head_].right_sibling = None THEN h1
     ELSE UnionLoop(h1, h1.head_, h1.data_[h1.head_].right_sibling, None,
                    2 * Size(h1.data_) + 2)

\* ------------------------------------------------------------- get_new_top
\* The scan of get_new_top: r = [top, fault, stuck].
RECURSIVE NewTopLoop(_, _, _, _, _)
NewTopLoop(h, top_index, tmp, fault, fuel) ==
  IF tmp = None THEN [top |-> top_index, fault |-> fault, stuck |-> FALSE]
  ELSE IF fuel = 0 THEN [top |-> top_index, fault |-> fault, stuck |-> TRUE]
  ELSE NewTopLoop(h,
                  IF compare_(ElemOf(h, tmp), ElemOf(h, top_index))
                  THEN tmp ELSE top_index,
                  h.data_[tmp].right_sibling,
                  fault \/ SlotOOB(h, tmp) \/ SlotOOB(h, top_index),
                  fuel - 1)

get_new_top(h) ==
  IF h.head_ = None THEN [top |-> None, fault |-> FALSE, stuck |-> FALSE]
  ELSE NewTopLoop(h, h.head_, h.data_[h.head_].right_sibling, FALSE,
                  Size(h.data_) + 1)

\* -------------------------------------------------------------------- push
\* A push that leaves top_ as it was.
PushTopKept(h, index) == h

\* Lines 370-371: the pushed value becomes the top when it compares better.
PushTop(h, index) ==
  \* line 370 reads data_[top_]
  IF h.top_ \notin DOMAIN h.data_ THEN [h EXCEPT !.fault = TRUE, !.stuck = TRUE]
  ELSE [h EXCEPT !.fault = h.fault \/ SlotOOB(h, index) \/ SlotOOB(h, h.top_),
                 !.top_ = IF compare_(ElemOf(h, index), ElemOf(h, h.top_))
                          THEN index ELSE h.top_]

\* Line 362: index_array[_id(d)] is out of range when the handle is not below
\* the n index_array was constructed with (push never resizes it).
HandleOOB(h, d) == Item_Label(d) \notin DOMAIN h.index_array

push(h, d) ==
  LET e1 == [h.elements_ EXCEPT ![h.elements_size] = d]
      n1 == h.elements_size + 1
      obj == Node(n1 - 1, None, None, None, 0)
      d1 == PushBack(h.data_, obj)
      index == Size(d1) - 1
      \* a write through an index_array entry out of range lands outside it
      h1 == [h EXCEPT !.elements_ = e1, !.elements_size = n1, !.data_ = d1,
                      !.index_array = IF HandleOOB(h, d) THEN h.index_array
                                      ELSE [h.index_array EXCEPT
                                              ![Item_Label(d)] = index],
                      !.fault = h.fault \/ HandleOOB(h, d)]
  IN \* an empty index_array has no storage: the write of line 362 goes through
     \* a null pointer
     IF HandleOOB(h, d) /\ DOMAIN h.index_array = {}
     THEN [h1 EXCEPT !.stuck = TRUE]
     ELSE IF h1.head_ = None
     THEN [h1 EXCEPT !.head_ = index, !.top_ = index]
     ELSE LET h2 == binomial_heap_union(h1, index)
          IN IF h2.stuck THEN h2 ELSE PushTop(h2, index)

\* ------------------------------------------------------------------ update
\* The loop without the compare_ test of line 387, run once: the value is
\* swapped with its parent's whatever the keys are.
UpdateLoop_Unconditional(h, index, parent, d, fuel) ==
  IF parent = None THEN [h |-> h, index |-> index]
  ELSE
    LET pv == ElemOf(h, parent)
        e1 == [h.elements_ EXCEPT ![h.data_[index].item_index] = pv]
        e2 == [e1 EXCEPT ![h.data_[parent].item_index] = d]
        temp == Item_Label(e2[h.data_[index].item_index])
    IN [h |-> [h EXCEPT !.elements_ = e2,
                        !.index_array = [h.index_array EXCEPT ![temp] = index]],
        index |-> parent]

\* The while loop of update: r = [h, index].
RECURSIVE UpdateLoop(_, _, _, _, _)
UpdateLoop(h, index, parent, d, fuel) ==
  IF parent = None THEN [h |-> h, index |-> index]
  ELSE IF fuel = 0 THEN [h |-> [h EXCEPT !.stuck = TRUE], index |-> index]
  ELSE IF ~compare_(d, ElemOf(h, parent))
       THEN [h |-> [h EXCEPT !.fault = h.fault \/ SlotOOB(h, parent)],
             index |-> index]
  ELSE
    LET pv == ElemOf(h, parent)
        e1 == [h.elements_ EXCEPT ![h.data_[index].item_index] = pv]
        e2 == [e1 EXCEPT ![h.data_[parent].item_index] = d]
        temp == Item_Label(e2[h.data_[index].item_index])
        h1 == [h EXCEPT !.elements_ = e2,
                        !.index_array = [h.index_array EXCEPT ![temp] = index],
                        !.fault = h.fault \/ SlotOOB(h, parent) \/ SlotOOB(h, index)]
    IN UpdateLoop(h1, parent, h.data_[parent].parent, d, fuel - 1)

\* update with line 384 writing elements_[index]: the node index taken for
\* the value slot.
update_NodeAsSlot(h, d) ==
  LET index == h.index_array[Item_Label(d)]
  IN IF index \notin DOMAIN h.data_
     THEN [h EXCEPT !.fault = TRUE, !.stuck = TRUE]
     ELSE
       LET parent == h.data_[index].parent
           h1 == [h EXCEPT !.elements_ = [h.elements_ EXCEPT
                                            ![index] = d],
                           !.fault = h.fault \/ SlotOOB(h, index)]
           r == UpdateLoop(h1, index, parent, d, Size(h.data_) + 1)
           h2 == [r.h EXCEPT !.index_array =
                               [r.h.index_array EXCEPT ![Item_Label(d)] = r.index]]
       IN IF h2.stuck THEN h2
          \* line 401 reads data_[top_]
          ELSE IF h2.top_ \notin DOMAIN h2.data_
               THEN [h2 EXCEPT !.fault = TRUE, !.stuck = TRUE]
          ELSE [h2 EXCEPT !.fault = h2.fault \/ SlotOOB(h2, h2.top_),
                          !.top_ = IF compare_(d, ElemOf(h2, h2.top_))
                                   THEN r.index ELSE h2.top_]

update(h, d) ==
  LET index == h.index_array[Item_Label(d)]
  IN IF index \notin DOMAIN h.data_
     THEN [h EXCEPT !.fault = TRUE, !.stuck = TRUE]
     ELSE
       LET parent == h.data_[index].parent
           h1 == [h EXCEPT !.elements_ = [h.elements_ EXCEPT
                                            ![h.data_[index].item_index] = d],
                           !.fault = h.fault \/ SlotOOB(h, index)]
           r == UpdateLoop(h1, index, parent, d, Size(h.data_) + 1)
           h2 == [r.h EXCEPT !.index_array =
                               [r.h.index_array EXCEPT ![Item_Label(d)] = r.index]]
       IN IF h2.stuck THEN h2
          \* line 401 reads data_[top_]
          ELSE IF h2.top_ \notin DOMAIN h2.data_
               THEN [h2 EXCEPT !.fault = TRUE, !.stuck = TRUE]
          ELSE [h2 EXCEPT !.fault = h2.fault \/ SlotOOB(h2, h2.top_),
                          !.top_ = IF compare_(d, ElemOf(h2, h2.top_))
                                   THEN r.index ELSE h2.top_]

\* --------------------------------------------------------------------- pop
\* Values a read of data_[size_t(-1)].right_sibling can yield: a node index,
\* none, or (CrashG, or any index outside the arena) an address whose use ends
\* the process.
CrashG == -2
Garbage == CrashG..(MaxPush - 1)

\* A pop that takes the child list as it stands for the new root list.
ReverseLoop_AsIs(d, tmp_head, new_head, fuel) ==
  [d |-> d, new_head |-> tmp_head, stuck |-> FALSE]

\* "Reverse the list": r = [d, new_head, stuck].
RECURSIVE ReverseLoop(_, _, _, _)
ReverseLoop(d, tmp_head, new_head, fuel) ==
  IF tmp_head = None THEN [d |-> d, new_head |-> new_head, stuck |-> FALSE]
  ELSE IF fuel = 0 THEN [d |-> d, new_head |-> new_head, stuck |-> TRUE]
  ELSE ReverseLoop([d EXCEPT ![tmp_head].parent = None,
                             ![tmp_head].right_sibling = new_head],
                   d[tmp_head].right_sibling, tmp_head, fuel - 1)

\* The search for the root before top_: r = [tmp, fault, stuck].
RECURSIVE PredLoop(_, _, _, _, _, _)
PredLoop(d, top, tmp, g, fault, fuel) ==
  IF fuel = 0 THEN [tmp |-> tmp, fault |-> fault, stuck |-> TRUE]
  ELSE IF tmp = None
       THEN \* data_[size_t(-1)].right_sibling: a wild read yielding g
            IF g = top THEN [tmp |-> tmp, fault |-> TRUE, stuck |-> FALSE]
            ELSE IF g \notin DOMAIN d
                 THEN [tmp |-> tmp, fault |-> TRUE, stuck |-> TRUE]
            ELSE PredLoop(d, top, g, g, TRUE, fuel - 1)
  ELSE IF d[tmp].right_sibling = top
       THEN [tmp |-> tmp, fault |-> fault, stuck |-> FALSE]
  ELSE PredLoop(d, top, d[tmp].right_sibling, g, fault, fuel - 1)

\* The compaction with the moved value's handle pointed at the freed place
\* (index_array written where line 540 writes item_index).
PopCompact_Remap(h, temp) ==
  LET nt == get_new_top(h)
      h1 == [h EXCEPT !.top_ = nt.top, !.fault = h.fault \/ nt.fault,
                      !.stuck = h.stuck \/ nt.stuck]
  IN IF h1.stuck THEN h1
     ELSE IF h1.elements_size = 0 THEN [h1 EXCEPT !.fault = TRUE, !.stuck = TRUE]
     ELSE
       LET last == h1.elements_[h1.elements_size - 1]
           e1 == [h1.elements_ EXCEPT ![temp] = last]
           d2 == [h1.data_ EXCEPT ![temp].parent = None, ![temp].child = None,
                                  ![temp].right_sibling = None, ![temp].degree = 0]
       IN [h1 EXCEPT !.elements_ = e1, !.data_ = d2,
                     !.index_array = [h1.index_array EXCEPT
                                        ![Item_Label(last)] = temp],
                     !.elements_size = h1.elements_size - 1,
                     !.fault = h1.fault \/ temp \notin 0..(h1.elements_size - 1)]

\* Lines 531-548: the new top, then the compaction of elements_.
PopCompact(h, temp) ==
  LET nt == get_new_top(h)
      h1 == [h EXCEPT !.top_ = nt.top, !.fault = h.fault \/ nt.fault,
                      !.stuck = h.stuck \/ nt.stuck]
  IN IF h1.stuck THEN h1
     \* elements_[elements_.size()-1] of an empty vector
     ELSE IF h1.elements_size = 0 THEN [h1 EXCEPT !.fault = TRUE, !.stuck = TRUE]
     ELSE
       LET last == h1.elements_[h1.elements_size - 1]
           index == h1.index_array[Item_Label(last)]
           e1 == [h1.elements_ EXCEPT ![temp] = last]
           d1 == [h1.data_ EXCEPT ![index].item_index = temp]
           d2 == [d1 EXCEPT ![temp].parent = None, ![temp].child = None,
                            ![temp].right_sibling = None, ![temp].degree = 0]
       IN [h1 EXCEPT !.elements_ = e1, !.data_ = d2,
                     !.elements_size = h1.elements_size - 1,
                     !.fault = h1.fault \/ temp \notin 0..(h1.elements_size - 1)]

\* pop without the test of lines 494-496.
pop_NoEmptyCheck(h, g) ==
  \* line 501 reads data_[top_]
  IF h.top_ \notin DOMAIN h.data_ THEN [h EXCEPT !.fault = TRUE, !.stuck = TRUE]
  ELSE
    LET temp == h.top_
        rv == IF h.data_[h.top_].child /= None
              THEN ReverseLoop(h.data_, h.data_[h.top_].child, None,
                               Size(h.data_) + 1)
              ELSE [d |-> h.data_, new_head |-> None, stuck |-> FALSE]
        h1 == [h EXCEPT !.data_ = rv.d, !.stuck = rv.stuck]
    IN IF h1.stuck THEN h1
       ELSE IF h1.data_[h1.head_].right_sibling = None
            THEN PopCompact([h1 EXCEPT !.head_ = rv.new_head], temp)
       ELSE IF h1.head_ = h1.top_
            THEN LET h2 == binomial_heap_union(
                             [h1 EXCEPT !.head_ = h1.data_[h1.head_].right_sibling],
                             rv.new_head)
                 IN IF h2.stuck THEN h2 ELSE PopCompact(h2, temp)
       ELSE LET pr == PredLoop(h1.data_, h1.top_, h1.head_, g, h1.fault,
                               Size(h1.data_) + 2)
                \* a write through data_[size_t(-1)] lands outside the arena
                d1 == IF pr.tmp = None THEN h1.data_
                      ELSE [h1.data_ EXCEPT ![pr.tmp].right_sibling =
                                               h1.data_[h1.top_].right_sibling]
                h2 == [h1 EXCEPT !.data_ = d1, !.fault = pr.fault,
                                 !.stuck = pr.stuck]
            IN IF h2.stuck THEN h2
               ELSE LET h3 == binomial_heap_union(h2, rv.new_head)
                    IN IF h3.stuck THEN h3 ELSE PopCompact(h3, temp)

pop(h, g) ==
  IF h.head_ = None THEN h
  \* line 501 reads data_[top_]
  ELSE IF h.top_ \notin DOMAIN h.data_ THEN [h EXCEPT !.fault = TRUE, !.stuck = TRUE]
  ELSE
    LET temp == h.top_
        rv == IF h.data_[h.top_].child /= None
              THEN ReverseLoop(h.data_, h.data_[h.top_].child, None,
                               Size(h.data_) + 1)
              ELSE [d |-> h.data_, new_head |-> None, stuck |-> FALSE]
        h1 == [h EXCEPT !.data_ = rv.d, !.stuck = rv.stuck]
    IN IF h1.stuck THEN h1
       ELSE IF h1.data_[h1.head_].right_sibling = None
            THEN PopCompact([h1 EXCEPT !.head_ = rv.new_head], temp)
       ELSE IF h1.head_ = h1.top_
            THEN LET h2 == binomial_heap_union(
                             [h1 EXCEPT !.head_ = h1.data_[h1.head_].right_sibling],
                             rv.new_head)
                 IN IF h2.stuck THEN h2 ELSE PopCompact(h2, temp)
       ELSE LET pr == PredLoop(h1.data_, h1.top_, h1.head_, g, h1.fault,
                               Size(h1.data_) + 2)
                \* a write through data_[size_t(-1)] lands outside the arena
                d1 == IF pr.tmp = None THEN h1.data_
                      ELSE [h1.data_ EXCEPT ![pr.tmp].right_sibling =
                                               h1.data_[h1.top_].right_sibling]
                h2 == [h1 EXCEPT !.data_ = d1, !.fault = pr.fault,
                                 !.stuck = pr.stuck]
            IN IF h2.stuck THEN h2
               ELSE LET h3 == binomial_heap_union(h2, rv.new_head)
                    IN IF h3.stuck THEN h3 ELSE PopCompact(h3, temp)

\* top(): r = [value, fault].  A read through data_[size_t(-1)] yields no value
\* of the heap (Junk).
top(h) ==
  IF h.top_ \notin DOMAIN h.data_ THEN [value |-> Junk, fault |-> TRUE]
  ELSE [value |-> ElemOf(h, h.top_), fault |-> SlotOOB(h, h.top_)]

empty(h) == h.elements_size = 0
size(h) == h.elements_size

\* ---------------------------------------------------------- matrix, scalar
\* A matrix<T, N> or matrix_ref<T, N> over int, as the sequence of its
\* elements.  The compound assignments are members of matrix, which this
\* file uses but does not define: "adding a scalar to a matrix adds that
\* value to each element", and likewise for subtraction.
ScalarAddAssign(m, n) == [i \in DOMAIN m |-> m[i] + n]
ScalarSubAssign(m, n) == [i \in DOMAIN m |-> m[i] - n]

\* operator-(const matrix<T, N>& x, const T& n): result = x; return result += n.
MatrixMinusScalar(x, n) == ScalarAddAssign(x, n)
\* operator-(const matrix_ref<T, N>& x, const T& n): result = x; return result -= n.
MatrixRefMinusScalar(x, n) == ScalarSubAssign(x, n)

Elems == (0 - MaxElem)..MaxElem
Matrices == [1..MatLen -> Elems]
\* No matrix operation under way.
NoMatrix == [op |-> "none", x |-> << >>, n |-> 0, result |-> << >>]

\* ------------------------------------------------------------------- state
VARIABLES
  elements_,      \* raw storage of std::vector<T> elements_
  elements_size,  \* elements_.size()
  data_,          \* std::vector<binomial_heap_node> data_
  head_, top_,    \* size_type head_, top_
  index_array,    \* IndexArray index_array
  fault,          \* an access outside a vector's size has happened
  status,         \* "ok" | "aborted" (checked operator[]) | "stuck" (wild access, endless loop)
  live,           \* history: the values pushed and not yet popped
  pushes, pops,   \* history: completed push calls, pop calls on a non-empty heap
  popped,         \* history: the keys top() returned before each pop of a
                  \* push-then-drain run (emptied by a push after a pop, or an update)
  mixed,          \* history: a push followed a pop
  updates,        \* history: completed update calls
  mat,            \* the operands and the result of a matrix operation
  empty_pops      \* history: pop calls made while head_ was none

vars == <<elements_, elements_size, data_, head_, top_, index_array, fault,
          status, live, pushes, pops, popped, mixed, updates, mat, empty_pops>>

\* The heap object as the operations take it.
Heap ==
  [elements_ |-> elements_, elements_size |-> elements_size, data_ |-> data_,
   head_ |-> head_, top_ |-> top_, index_array |-> index_array,
   fault |-> fault, stuck |-> FALSE,
   \* set by a call whose union has accessed data_ outside the arena
   union_oob |-> FALSE]

\* binomial_heap(n, cmp, id): index_array(n), top_(-1), head_(-1).
Init ==
  /\ elements_ = [i \in 0..(MaxPush - 1) |-> Junk]
  /\ elements_size = 0
  /\ data_ = << >>
  /\ head_ = None
  /\ top_ = None
  /\ index_array = [i \in Handles |-> 0]
  /\ fault = FALSE
  /\ status = "ok"
  /\ live = {}
  /\ pushes = 0
  /\ pops = 0
  /\ popped = << >>
  /\ mixed = FALSE
  /\ updates = 0
  /\ mat = NoMatrix
  /\ empty_pops = 0

\* How an operation with result r can end.  The first out-of-range access of a
\* run aborts a build with checked operator[] and goes unnoticed in an unchecked
\* one; a run that went on after one is an unchecked build.
Outcomes(r) ==
  (IF r.stuck THEN {"stuck"} ELSE {"ok"})
    \cup (IF r.fault /\ ~fault THEN {"aborted"} ELSE {})

\* An operation that does not return ends the process: the heap is gone, and
\* only the status and the fault are left to observe.
Commit(r, out) ==
  IF out = "ok"
  THEN /\ elements_' = r.elements_
       /\ elements_size' = r.elements_size
       /\ data_' = r.data_
       /\ head_' = r.head_
       /\ top_' = r.top_
       /\ index_array' = r.index_array
       /\ fault' = r.fault
       /\ status' = "ok"
  ELSE /\ elements_' = [i \in DOMAIN elements_ |-> Junk]
       /\ elements_size' = 0
       /\ data_' = << >>
       /\ head_' = None
       /\ top_' = None
       /\ index_array' = [i \in DOMAIN index_array |-> 0]
       /\ fault' = (fault \/ r.fault)
       /\ status' = out

LiveIds == {Item_Label(v) : v \in live}

\* push(d), with the history it makes.
PushValue(d) ==
  LET r == push(Heap, d)
  IN /\ \E out \in Outcomes(r) :
          /\ Commit(r, out)
          /\ IF out = "ok"
             THEN /\ live' = live \cup {d}
                  /\ pushes' = pushes + 1
                  /\ mixed' = (mixed \/ pops > 0)
                  /\ popped' = IF pops > 0 THEN << >> ELSE popped
             ELSE UNCHANGED <<live, pushes, mixed, popped>>
     /\ UNCHANGED <<pops, updates, mat, empty_pops>>

\* A handle push may bring: the smallest one that is not live (a handle freed
\* by a pop is the next one pushed again).  The index_array entry of a handle
\* that is not live is never read before push overwrites it (line 362), so
\* which free handle a push brings does not change what the heap does.
FreshHandle(i) == i \notin LiveIds /\ \A j \in Handles : j < i => j \in LiveIds

\* push(d) of a value whose handle is not live.
Push ==
  /\ status = "ok"
  /\ pushes < MaxPush
  /\ \E d \in Values : FreshHandle(Item_Label(d)) /\ PushValue(d)

\* The same in runs with update calls.
PushU ==
  /\ status = "ok"
  /\ pushes < MaxPushU
  /\ \E d \in ValuesU : FreshHandle(Item_Label(d)) /\ PushValue(d)

\* pop() on a non-empty heap; the caller has read top() before it.
Pop ==
  /\ status = "ok"
  /\ ~empty(Heap)
  /\ pops < MaxPush
  /\ \E g \in (IF pop(Heap, CrashG).stuck THEN Garbage ELSE {CrashG}) :
       LET r == pop(Heap, g)
           t == top(Heap).value
       IN \E out \in Outcomes(r) :
            /\ Commit(r, out)
            /\ IF out = "ok"
               THEN /\ live' = live \ {t}
                    /\ pops' = pops + 1
                    /\ popped' = IF mixed \/ updates > 0 THEN << >>
                                 ELSE Append(popped, t.key)
               ELSE UNCHANGED <<live, pops, popped>>
  /\ UNCHANGED <<pushes, mixed, updates, mat, empty_pops>>

\* update(d) for a value whose handle is live.
Update ==
  /\ status = "ok"
  /\ updates < MaxUpdate
  /\ \E d \in ValuesU :
       /\ Item_Label(d) \in LiveIds
       /\ LET r == update(Heap, d)
          IN \E out \in Outcomes(r) :
               /\ Commit(r, out)
               /\ IF out = "ok"
                  THEN /\ live' = {v \in live : Item_Label(v) /= Item_Label(d)}
                                    \cup {d}
                       /\ updates' = updates + 1
                       /\ popped' = << >>
                  ELSE UNCHANGED <<live, updates, popped>>
  /\ UNCHANGED <<pushes, pops, mixed, mat, empty_pops>>

\* update(d) that improves the key: d compares at least as favourably as the
\* value its handle has.
UpdateBetter ==
  /\ Update
  /\ \A v \in live :
       \A w \in live' : Item_Label(v) = Item_Label(w) => ~compare_(v, w)

Next == PushU \/ Pop \/ Update

\* push, pop and updates that only improve a key.
NextBetter == PushU \/ Pop \/ UpdateBetter

SpecBetter == Init /\ [][NextBetter]_vars

Spec == Init /\ [][Next]_vars

\* push and pop only.
NextPP == Push \/ Pop

SpecPP == Init /\ [][NextPP]_vars

\* push and pop, and pop() called while head_ is none.
PushE == pushes < MaxPushE /\ Push

PopEmpty ==
  /\ status = "ok"
  /\ head_ = None
  /\ empty_pops < MaxEmptyPop
  /\ \E g \in (IF pop(Heap, CrashG).stuck THEN Garbage ELSE {CrashG}) :
       LET r == pop(Heap, g)
       IN \E out \in Outcomes(r) : Commit(r, out)
  /\ empty_pops' = empty_pops + 1
  /\ UNCHANGED <<live, pushes, pops, popped, mixed, updates, mat>>

NextPPE == PushE \/ Pop \/ PopEmpty

SpecPPE == Init /\ [][NextPPE]_vars

\* push only, onto a heap constructed with n = MaxPushOnly: the i-th push
\* brings handle i (handles are only written by push, so their order is
\* immaterial) and any key.
InitPush ==
  /\ elements_ = [i \in 0..(MaxPushOnly - 1) |-> Junk]
  /\ elements_size = 0
  /\ data_ = << >>
  /\ head_ = None
  /\ top_ = None
  /\ index_array = [i \in 0..(MaxPushOnly - 1) |-> 0]
  /\ fault = FALSE
  /\ status = "ok"
  /\ live = {}
  /\ pushes = 0
  /\ pops = 0
  /\ popped = << >>
  /\ mixed = FALSE
  /\ updates = 0
  /\ mat = NoMatrix
  /\ empty_pops = 0

PushFresh ==
  /\ status = "ok"
  /\ pushes < MaxPushOnly
  /\ \E k \in KeysU : PushValue([key |-> k, id |-> pushes])

SpecPush == InitPush /\ [][PushFresh]_vars

\* Pushes onto a heap constructed with n = MaxTree, then one pop.
InitTree ==
  /\ elements_ = [i \in 0..(MaxTree - 1) |-> Junk]
  /\ elements_size = 0
  /\ data_ = << >>
  /\ head_ = None
  /\ top_ = None
  /\ index_array = [i \in 0..(MaxTree - 1) |-> 0]
  /\ fault = FALSE
  /\ status = "ok"
  /\ live = {}
  /\ pushes = 0
  /\ pops = 0
  /\ popped = << >>
  /\ mixed = FALSE
  /\ updates = 0
  /\ mat = NoMatrix
  /\ empty_pops = 0

PushTree ==
  /\ status = "ok"
  /\ pops = 0
  /\ pushes < MaxTree
  /\ \E k \in Keys : PushValue([key |-> k, id |-> pushes])

PopOnce == pops = 0 /\ Pop

NextTree == PushTree \/ PopOnce

SpecTree == InitTree /\ [][NextTree]_vars

\* binomial_heap(): compare_ and _id are initialized, the vectors are empty,
\* and head_ and top_ have no initializer: each holds what its storage held
\* before, none, a small index or anything else.
Uninitialized == CrashG..MaxTree

InitDefault ==
  /\ elements_ = [i \in 0..(MaxTree - 1) |-> Junk]
  /\ elements_size = 0
  /\ data_ = << >>
  /\ head_ \in Uninitialized
  /\ top_ \in Uninitialized
  /\ index_array = [i \in {} |-> 0]
  /\ fault = FALSE
  /\ status = "ok"
  /\ live = {}
  /\ pushes = 0
  /\ pops = 0
  /\ popped = << >>
  /\ mixed = FALSE
  /\ updates = 0
  /\ mat = NoMatrix
  /\ empty_pops = 0

\* push(d) on the default-constructed heap.
PushDefault ==
  /\ status = "ok"
  /\ pushes < MaxTree
  /\ \E d \in Values : PushValue(d)

SpecDefault == InitDefault /\ [][PushDefault]_vars

\* x - n for a matrix and for a matrix_ref, on operands drawn by InitMatrix.
InitMatrix ==
  /\ elements_ = [i \in 0..(MaxPush - 1) |-> Junk]
  /\ elements_size = 0
  /\ data_ = << >>
  /\ head_ = None
  /\ top_ = None
  /\ index_array = [i \in Handles |-> 0]
  /\ fault = FALSE
  /\ status = "ok"
  /\ live = {}
  /\ pushes = 0
  /\ pops = 0
  /\ popped = << >>
  /\ mixed = FALSE
  /\ updates = 0
  /\ mat \in [op : {"none"}, x : Matrices, n : Elems, result : {<< >>}]
  /\ empty_pops = 0

SubMatrix ==
  /\ mat.op = "none"
  /\ mat' = [mat EXCEPT !.op = "matrix", !.result = MatrixMinusScalar(mat.x, mat.n)]
  /\ UNCHANGED <<elements_, elements_size, data_, head_, top_, index_array,
                 fault, status, live, pushes, pops, popped, mixed, updates,
                 empty_pops>>

SubMatrixRef ==
  /\ mat.op = "none"
  /\ mat' = [mat EXCEPT !.op = "matrix_ref",
                        !.result = MatrixRefMinusScalar(mat.x, mat.n)]
  /\ UNCHANGED <<elements_, elements_size, data_, head_, top_, index_array,
                 fault, status, live, pushes, pops, popped, mixed, updates,
                 empty_pops>>

NextMatrix == SubMatrix \/ SubMatrixRef

SpecMatrix == InitMatrix /\ [][NextMatrix]_vars

\* ---------------------------------------------------------------- the forest
\* The nodes on the right_sibling chain from x, in order.
RECURSIVE Chain(_, _, _)
Chain(d, x, fuel) ==
  IF x = None \/ fuel = 0 THEN << >>
  ELSE <<x>> \o Chain(d, d[x].right_sibling, fuel - 1)

RootList == Chain(data_, head_, Size(data_))
Children(x) == Chain(data_, data_[x].child, Size(data_))
Range(sq) == {sq[i] : i \in 1..Len(sq)}

\* The nodes reachable from head_ through child and right_sibling links.
RECURSIVE Reach(_, _, _)
Reach(d, frontier, seen) ==
  IF frontier = {} THEN seen
  ELSE LET nxt == ({d[x].child : x \in frontier}
                     \cup {d[x].right_sibling : x \in frontier})
                  \ (seen \cup {None})
       IN Reach(d, nxt, seen \cup nxt)

ForestNodes == IF head_ = None THEN {} ELSE Reach(data_, {head_}, {head_})

\* merge(index) on its own: the heap as a caller hands it over, with a root
\* list at head_ and a second root list at index, both non-empty and in
\* non-decreasing degree order, over nodes in any arena order.  Merging
\* reads the right_sibling and degree of roots only, so the trees below the
\* roots are left out; the history variables record nothing here.
Perms(n) == {f \in [1..n -> 0..(n - 1)] : \A i, j \in 1..n : f[i] = f[j] => i = j}
\* Degrees for positions 1..n, non-decreasing on 1..k and on k+1..n.
SortedDegrees(n, k) ==
  {g \in [1..n -> 0..MaxDeg] :
     \A i \in 1..(n - 1) : i /= k => g[i] <= g[i + 1]}

InitMerge ==
  /\ \E n \in 2..NMerge : \E k \in 1..(n - 1) :
       \E perm \in Perms(n) : \E deg \in SortedDegrees(n, k) :
         /\ data_ = [x \in 0..(n - 1) |->
                       LET pos == CHOOSE j \in 1..n : perm[j] = x
                       IN Node(x, None, None,
                               IF pos = k \/ pos = n THEN None ELSE perm[pos + 1],
                               deg[pos])]
         /\ head_ = perm[1]
         /\ top_ = perm[1]
         /\ elements_size = n
  /\ elements_ = [i \in 0..(NMerge - 1) |-> [key |-> 1, id |-> i]]
  /\ index_array = [i \in 0..(NMerge - 1) |-> i]
  /\ fault = FALSE
  /\ status = "ok"
  /\ live = {}
  /\ pushes = 0
  /\ pops = 0
  /\ popped = << >>
  /\ mixed = FALSE
  /\ updates = 0
  /\ mat = NoMatrix
  /\ empty_pops = 0

\* The roots of the second list: the nodes that are not on the list at head_.
SecondList == DOMAIN data_ \ Range(RootList)
\* Its first node, the argument of merge.
MergeIndex ==
  CHOOSE x \in SecondList : \A m \in DOMAIN data_ : data_[m].right_sibling /= x

Merge ==
  /\ status = "ok"
  /\ SecondList /= {}
  /\ LET r == merge(Heap, MergeIndex)
     IN \E out \in Outcomes(r) : Commit(r, out)
  /\ UNCHANGED <<live, pushes, pops, popped, mixed, updates, mat,
                 empty_pops>>

SpecMerge == InitMerge /\ [][Merge]_vars

\* A run of push and pop calls only; one of pushes followed by pops.
PushPopRun == updates = 0
DrainRun == updates = 0 /\ ~mixed

\* ------------------------------------------------------------------ claims
Sorted(sq) == \A i, j \in 1..Len(sq) : i < j => ~compare_([key |-> sq[j]], [key |-> sq[i]])

\* C1 -- heap-sort property: in a run of n pushes followed by { top(); pop() },
\* every array access is in range, the keys read by top() come out in sorted
\* order and are the smallest of the pushed keys (each pop removes a value that
\* was live, and no popped key is above a key still live), and empty() is true
\* exactly after n pops.
C1_HeapSort ==
  DrainRun =>
    /\ ~fault
    /\ status = "ok"
    /\ Len(popped) = pops
    /\ Sorted(popped)
    /\ \A i \in 1..Len(popped) : \A v \in live : popped[i] <= v.key
    /\ Cardinality(live) = pushes - pops
    /\ (empty(Heap) <=> pops = pushes)

\* C2 -- after each push of a push-only run, top() is read in range and
\* returns a pushed value whose key no pushed value's key beats.
C2_TopAfterPush ==
  pushes > 0 =>
    /\ status = "ok"
    /\ ~top(Heap).fault
    /\ top(Heap).value \in live
    /\ \A v \in live : top(Heap).value.key <= v.key

\* C2: six pushes with ties and larger keys around, the top being neither the
\* first nor the last node pushed.
C2_Witness ==
  /\ pushes >= 6
  /\ top_ \notin {0, pushes - 1}
  /\ \E v, w \in live : v /= w /\ v.key = w.key /\ v.key = top(Heap).value.key
  /\ \E v \in live : v.key > top(Heap).value.key
  /\ C2_TopAfterPush

\* C3 -- in every non-empty state of a push/pop run, the key top() returns is
\* extremal among the values pushed and not yet popped.
C3_TopExtremal ==
  (status = "ok" /\ PushPopRun /\ ~empty(Heap) /\ live /= {}) =>
    \A v \in live : top(Heap).value.key <= v.key

\* The nodes of the forest whose value slot is s.
Owners(s) == {n \in ForestNodes : data_[n].item_index = s}

\* What C4 says holds after a pop.
SlotsSound ==
  /\ \A n \in ForestNodes : data_[n].item_index \in 0..(elements_size - 1)
  /\ \A m, n \in ForestNodes : m /= n => data_[m].item_index /= data_[n].item_index
  /\ {elements_[s] : s \in 0..(elements_size - 1)} = live
  /\ Cardinality(live) = elements_size

\* C4 -- every pop of a push/pop run overwrites the removed top's value slot
\* with the last value, gives that slot to the moved value's node, and leaves
\* every forest node with a slot of its own below elements_.size() and
\* elements_ holding exactly the values pushed and not yet popped.
C4_Compaction ==
  [][(PushPopRun /\ status' = "ok" /\ pops' = pops + 1) =>
       /\ elements_'[data_[top_].item_index] = elements_[elements_size - 1]
       /\ \A m \in Owners(elements_size - 1) \ {top_} :
            data_'[m].item_index = data_[top_].item_index
       /\ SlotsSound']_vars

\* C5 -- in every non-empty state of a push/pop run top_ is a root: a node
\* without parent on the right_sibling chain from head_.
C5_TopIsRoot ==
  (status = "ok" /\ PushPopRun /\ ~empty(Heap)) =>
    /\ top_ \in DOMAIN data_
    /\ data_[top_].parent = None
    /\ top_ \in Range(RootList)

\* C6 -- handle consistency: for every live value v stored in slot s of
\* elements_, index_array[handle(v)] is the node whose item_index is s.
C6_HandleConsistency ==
  status = "ok" =>
    \A s \in 0..(elements_size - 1) :
      elements_[s] \in live =>
        /\ index_array[Item_Label(elements_[s])] \in DOMAIN data_
        /\ data_[index_array[Item_Label(elements_[s])]].item_index = s

\* C7 -- after k pushes and j pops, each pop issued on a non-empty heap,
\* size() is k - j; and empty() is true exactly when size() is 0.
C7_Size ==
  (status = "ok" /\ PushPopRun) =>
    /\ size(Heap) = pushes - pops
    /\ (empty(Heap) <=> size(Heap) = 0)

\* C8 -- after every completed push and pop the root list from head_ has
\* strictly increasing degree.
C8_RootDegrees ==
  (status = "ok" /\ PushPopRun) =>
    \A i \in 1..(Len(RootList) - 1) :
      data_[RootList[i]].degree < data_[RootList[i + 1]].degree

\* C8: a pop has turned the children of the removed root into roots and a
\* later push has consolidated: two or more roots, the last of degree 2.
C8_Witness ==
  /\ status = "ok" /\ PushPopRun /\ ~fault
  /\ pops >= 1 /\ pushes >= 5
  /\ Len(RootList) >= 2
  /\ data_[RootList[Len(RootList)]].degree = 2
  /\ C8_RootDegrees

\* The nodes below x: its children and their descendants.
Below(x) ==
  IF data_[x].child = None THEN {}
  ELSE Reach(data_, {data_[x].child}, {data_[x].child})

\* The nodes of the values pushed and not yet popped.
LiveNodes == {index_array[Item_Label(v)] : v \in live}

\* C9 -- binomial-tree shape: every live node of degree k has exactly k
\* children on its child/right_sibling chain, one of each degree 0..k-1, each
\* with that node as parent, and 2^k nodes in its subtree.
C9_Shape ==
  (status = "ok" /\ PushPopRun) =>
    \A n \in LiveNodes :
      LET k == data_[n].degree
          ch == Children(n)
      IN /\ Len(ch) = k
         /\ {data_[ch[i]].degree : i \in 1..Len(ch)} = 0..(k - 1)
         /\ \A i \in 1..Len(ch) : data_[ch[i]].parent = n
         /\ Cardinality(Below(n)) + 1 = 2 ^ k

\* A value with a live handle whose key beats every other live key.
BeatsAll(d) ==
  /\ Item_Label(d) \in LiveIds
  /\ \A v \in live : Item_Label(v) /= Item_Label(d) => compare_(d, v)

\* C10 -- update(d) on a live handle with a key that beats every other live
\* key returns, and afterwards top() is d and top_ is index_array[handle(d)].
C10_UpdateToTop ==
  status = "ok" =>
    \A d \in ValuesU :
      BeatsAll(d) =>
        LET r == update(Heap, d)
        IN /\ ~r.stuck
           /\ ~top(r).fault
           /\ top(r).value = d
           /\ r.top_ = r.index_array[Item_Label(d)]

\* C11 -- in every state of a push/pop run, head_ is none exactly when top_ is
\* none, exactly when elements_ is empty.
C11_EmptyForest ==
  (status = "ok" /\ PushPopRun) =>
    /\ (head_ = None <=> top_ = None)
    /\ (top_ = None <=> empty(Heap))

\* What a caller can tell of a call with result r.  No operation has an error
\* return or throws: a call that returns has returned as a valid one does, so a
\* failure is reported only where the call cannot return.
Reported(r) == "ok" \notin Outcomes(r)

\* The call has left every stored value as it was.
KeepsValues(r) ==
  /\ r.elements_size = elements_size
  /\ \A s \in 0..(elements_size - 1) : r.elements_[s] = elements_[s]

\* C12 -- top() and pop() on an empty heap, and update(d) for a handle that is
\* not live, each report a failure and neither return nor overwrite a stored
\* value.
C12_Reported ==
  status = "ok" =>
    /\ empty(Heap) =>
          /\ Reported([fault |-> top(Heap).fault, stuck |-> FALSE])
          /\ Reported(pop(Heap, CrashG))
          /\ KeepsValues(pop(Heap, CrashG))
    /\ \A d \in ValuesU :
          Item_Label(d) \notin LiveIds =>
            /\ Reported(update(Heap, d))
            /\ KeepsValues(update(Heap, d))

\* C13 -- a pop of a forest that is a single binomial tree of degree k, built
\* by 2^k pushes, leaves exactly k roots, of degrees 0, 1, ..., k-1 in list
\* order from head_, each without parent.
C13_PopOfTree ==
  [][(/\ pops' = pops + 1
      /\ status' = "ok"
      /\ Len(RootList) = 1
      /\ pushes = 2 ^ data_[head_].degree)
     => /\ Len(RootList') = data_[head_].degree
        /\ \A i \in 1..Len(RootList') :
             /\ data_'[RootList'[i]].degree = i - 1
             /\ data_'[RootList'[i]].parent = None]_vars

\* C13: eight pushes made one tree of degree 3 and the pop has left three
\* roots of degrees 0, 1, 2.
C13_Witness ==
  /\ status = "ok" /\ pushes = 8 /\ pops = 1
  /\ Len(RootList) = 3
  /\ \A i \in 1..3 : data_[RootList[i]].degree = i - 1 /\ data_[RootList[i]].parent = None

\* C14 -- every call of binomial_heap_union made by a push or a pop of a
\* push/pop run accesses data_ only at indices inside the node arena.
C14_UnionInArena ==
  (status = "ok" /\ PushPopRun) =>
    /\ \A d \in Values :
         FreshHandle(Item_Label(d)) => ~push(Heap, d).union_oob
    /\ ~empty(Heap) => \A g \in Garbage : ~pop(Heap, g).union_oob

\* C15 -- push(d) records handle(d) -> node for any handle that is not live,
\* also one at or above the n given at construction, without an access to
\* index_array out of range.
C15_AnyHandle ==
  (status = "ok" /\ PushPopRun) =>
    \A d \in [key : Keys, id : 0..NHandles] :
      Item_Label(d) \notin LiveIds =>
        LET r == push(Heap, d)
        IN /\ ~HandleOOB(Heap, d)
           /\ r.index_array[Item_Label(d)] = Size(r.data_) - 1

\* C16 -- a default-constructed heap is empty with head_ and top_ none, and
\* the first push on it returns with the pushed node as head_ and top_.
C16_DefaultEmpty ==
  /\ status = "ok"
  /\ pushes = 0 => (empty(Heap) /\ head_ = None /\ top_ = None)
  /\ pushes = 1 => (head_ = 0 /\ top_ = 0)

\* C17 -- every element of x - n is the element of x minus n, for the matrix
\* and for the matrix_ref overload.
C17_ScalarSubtraction ==
  mat.op \in {"matrix", "matrix_ref"} =>
    /\ DOMAIN mat.result = DOMAIN mat.x
    /\ \A i \in DOMAIN mat.x : mat.result[i] = mat.x[i] - mat.n

\* C18 -- heap order: in every state reachable by push, pop and updates that
\* only improve a key, no node of the forest has a value that compares
\* strictly more favourably than its parent's value.
C18_HeapOrder ==
  status = "ok" =>
    \A n \in ForestNodes :
      data_[n].parent /= None =>
        ~compare_(ElemOf(Heap, n), ElemOf(Heap, data_[n].parent))

\* The step is an update(d) call that returned.
UpdatedBy(d) ==
  /\ status = "ok" /\ status' = "ok"
  /\ updates' = updates + 1
  /\ Item_Label(d) \in LiveIds
  /\ live' = {v \in live : Item_Label(v) /= Item_Label(d)} \cup {d}
  /\ elements_' = update(Heap, d).elements_
  /\ index_array' = update(Heap, d).index_array
  /\ top_' = update(Heap, d).top_

\* d compares less favourably than the value of a child of its node, or its
\* node is top_ and d compares less favourably than another root's value.
Worse(d) ==
  LET index == index_array[Item_Label(d)]
  IN \/ \E c \in DOMAIN data_ :
          data_[c].parent = index /\ compare_(ElemOf(Heap, c), d)
     \/ /\ index = top_
        /\ \E r \in Range(RootList) \ {index} : compare_(ElemOf(Heap, r), d)

\* x and the nodes above it.
RECURSIVE Up(_, _, _)
Up(d, x, fuel) ==
  IF x = None \/ fuel = 0 THEN {}
  ELSE {x} \cup Up(d, d[x].parent, fuel - 1)

\* C19, as stated -- an update(d) that gives a live value a key less
\* favourable than a child's key (or than another root's key while it is the
\* top) leaves the value in its node and top_ as it was.
C19_StaysInNode ==
  [][\A d \in ValuesU :
       UpdatedBy(d) /\ Worse(d) =>
         /\ index_array'[Item_Label(d)] = index_array[Item_Label(d)]
         /\ ElemOf(Heap', index_array[Item_Label(d)]) = d
         /\ top_' = top_
         /\ data_' = data_]_vars

\* C19, amended -- such an update never moves the value downward: the value
\* ends in its node or in a node above it, in its node whenever it does not
\* compare more favourably than its parent's value; no link changes; and top_
\* is not recomputed: it stays, or becomes the node of d when d compares more
\* favourably than the value top_ holds.
C19_NeverDownward ==
  [][\A d \in ValuesU :
       UpdatedBy(d) /\ Worse(d) =>
         LET index == index_array[Item_Label(d)]
             parent == data_[index].parent
             last == index_array'[Item_Label(d)]
         IN /\ last \in Up(data_, index, Size(data_))
            /\ (parent = None \/ ~compare_(d, ElemOf(Heap, parent)))
                 => last = index
            /\ ElemOf(Heap', last) = d
            /\ data_' = data_
            /\ top_' \in {top_, last}
            /\ top_' /= top_ => compare_(d, ElemOf(Heap', top_))]_vars

\* Reached by push and update calls alone: a child compares more favourably
\* than its parent and top() is not the most favourable stored value.
C19_Witness ==
  /\ status = "ok" /\ ~fault
  /\ pops = 0 /\ updates > 0
  /\ ~C18_HeapOrder
  /\ \E v \in live : compare_(v, top(Heap).value)

\* C20 -- termination: every push, pop and update issued on a reachable heap
\* returns; no loop of theirs runs on past a none link.
C20_Terminates == status /= "stuck"

\* The step is a pop() call that returned.
Popped == status = "ok" /\ status' = "ok" /\ pops' = pops + 1

\* C21 -- pop does not disturb handle mappings: every value that is still
\* live after a pop has the index_array entry it had before the pop.
C21_PopKeepsHandles ==
  [][Popped =>
       \A v \in live' : index_array'[Item_Label(v)] = index_array[Item_Label(v)]]_vars

\* After a pop whose compaction has moved a value: a live value's node refers
\* to a slot other than the one push gave it.
C21_Witness ==
  /\ status = "ok" /\ ~fault
  /\ pops > 0
  /\ \E v \in live :
       data_[index_array[Item_Label(v)]].item_index /= index_array[Item_Label(v)]

\* C22 -- update changes only values and the handle index: head_, the sizes
\* of elements_ and data_ and every field of every node stay as they were,
\* and a value slot whose content changes belongs to a node on the path from
\* the node of d to its root.
C22_UpdateFrame ==
  [][\A d \in ValuesU :
       UpdatedBy(d) =>
         /\ head_' = head_
         /\ elements_size' = elements_size
         /\ data_' = data_
         /\ \A s \in DOMAIN elements_ :
              elements_'[s] /= elements_[s] =>
                \E n \in Up(data_, index_array[Item_Label(d)], Size(data_)) :
                  data_[n].item_index = s]_vars

\* Reached by push and update calls alone (the i-th push brings handle i and
\* takes node i): an update has walked its value up to another node.
C22_Witness ==
  /\ status = "ok" /\ ~fault
  /\ pops = 0 /\ updates > 0
  /\ \E v \in live : index_array[Item_Label(v)] /= Item_Label(v)

\* C23 -- merge(index) of two degree-sorted root lists leaves, from the new
\* head_, one right_sibling chain that holds every root of both lists exactly
\* once in non-decreasing degree order, and data_ of the size it had.
C23_Merge ==
  [][(status = "ok" /\ SecondList /= {}) =>
       LET P == RootList
           Q == Chain(data_, MergeIndex, Size(data_))
           R == Chain(data_', head_', Size(data_') + 1)
       IN /\ status' = "ok"
          /\ Len(R) = Len(P) + Len(Q)
          /\ Range(R) = Range(P) \cup Range(Q)
          /\ \A i \in 1..(Len(R) - 1) :
               data_'[R[i]].degree <= data_'[R[i + 1]].degree
          /\ Size(data_') = Size(data_)]_vars

\* After a merge of NMerge roots: one chain holds them all, two neighbours on
\* it have the same degree, and it starts with the first root of the list
\* at index (top_ still names the first root of the former head_ list).
C23_Witness ==
  /\ status = "ok"
  /\ SecondList = {}
  /\ Len(RootList) = NMerge
  /\ \E i \in 1..(NMerge - 1) :
       data_[RootList[i]].degree = data_[RootList[i + 1]].degree
  /\ head_ /= top_

\* C24 -- removal leaves no gaps: after every pop the value store and the
\* node arena each hold exactly one entry per value pushed and not yet popped.
C24_NoGaps ==
  [][Popped =>
       /\ elements_size' = Cardinality(live')
       /\ Size(data_') = Cardinality(live')]_vars

\* The number of child and right_sibling links of forest nodes that lead to n.
Incoming(n) ==
  Cardinality({m \in ForestNodes : data_[m].child = n})
    + Cardinality({m \in ForestNodes : data_[m].right_sibling = n})

\* C25 -- no live value is lost from the forest: the nodes reachable from
\* head_ through right_sibling and child links are reached along one path
\* each (no cycle, no sharing), and there are elements_.size() of them.
C25_ForestComplete ==
  status = "ok" =>
    /\ \A n \in ForestNodes : Incoming(n) = IF n = head_ THEN 0 ELSE 1
    /\ Cardinality(ForestNodes) = elements_size

\* C26 -- pop on a heap whose head_ is none is a no-op: elements_, data_,
\* index_array, head_ and top_ are as they were, and the call returns without
\* an access outside the arrays.
C26_PopOnEmpty ==
  [][empty_pops' = empty_pops + 1 =>
       /\ status' = "ok"
       /\ fault' = fault
       /\ elements_' = elements_
       /\ elements_size' = elements_size
       /\ data_' = data_
       /\ index_array' = index_array
       /\ head_' = head_
       /\ top_' = top_]_vars

\* pop() has been called on a drained heap: head_ is none, and the arena
\* still holds the nodes of the values pushed before.
C26_Witness ==
  /\ status = "ok"
  /\ empty_pops > 0
  /\ head_ = None
  /\ pops > 0
  /\ Size(data_) > 0

====
